---- MODULE Spec2Model ----
(***************************************************************************)
(* Model of src/httpFetch.ts: the fetch-based HttpHelper (getAsync,        *)
(* postAsync, putAsync, deleteAsync), its promise chain (handleResponse,   *)
(* handleExpectedError, handleUnexpectedError) and interceptError.         *)
(*                                                                         *)
(* One verb call is in flight at a time; the calls follow one another.     *)
(* JavaScript values are records tagged by the field t; an exception is a  *)
(* completion record with threw = TRUE.                                    *)
(***************************************************************************)
EXTENDS Integers, Sequences, FiniteSets, TLC

VARIABLES
    DEBUG,            \* the build flag read by interceptError
    pc,               \* position of the call in flight
    verb,             \* which public operation is in flight
    request,          \* the argument handed to fetch
    response,         \* the Response the transport resolved with
    chain,            \* the promise built by query / command
    decoded,          \* completion of the last parseBody call
    classified,       \* the outcome handleResponse / handleExpectedError built
    faultIn,          \* the argument handleUnexpectedError was called with
    settled,          \* how the verb's awaitable settled
    intercepted,      \* the error as it was on entry to interceptError
    returned,         \* the Result interceptError returned
    logged,           \* what the last console.error call shows
    navigations,      \* calls of window.location.replace('/')
    unauthorizedSeen, \* UnauthorizedError instances passed to interceptError
    interceptCalls,   \* calls of interceptError
    logCount,         \* calls of console.error
    calls             \* verb operations started

vars == <<DEBUG, pc, verb, request, response, chain, decoded, classified, faultIn,
          settled, intercepted, returned, logged, navigations, unauthorizedSeen,
          interceptCalls, logCount, calls>>

-----------------------------------------------------------------------------
(* Bounds *)

MaxLen == 3
MaxCalls == 2

-----------------------------------------------------------------------------
(* Constants of the program *)

StatusOk == 200
StatusUnassigned == 299
StatusBadRequest == 400
StatusUnauthorized == 401
StatusNotFound == 404

Methods == [Get |-> "GET", Post |-> "POST", Put |-> "PUT", Delete |-> "DELETE"]

Headers == [t |-> "headers",
            m |-> [k \in {"Accept", "Content-Type", "X-Requested-With"} |->
                     CASE k = "Accept" -> "application/json"
                       [] k = "Content-Type" -> "application/json"
                       [] OTHER -> "fetch"]]

SameOrigin == "same-origin"

-----------------------------------------------------------------------------
(* JavaScript values *)

Undefined == [t |-> "undefined"]
Null == [t |-> "null"]
None == [t |-> "none"]
\* {}
EmptyObject == [t |-> "object", keys |-> {}]

\* { bodyText }
BodyTextObject(bodyText) == [t |-> "object", keys |-> {"bodyText"}, bodyText |-> bodyText]
Num(n) == [t |-> "number", n |-> n]
Str(s) == [t |-> "string", s |-> s]

Normal(v) == [threw |-> FALSE, value |-> v]
Throw(e) == [threw |-> TRUE, value |-> e]

\* A fault that is no AppError: what fetch, response.text(), JSON.stringify,
\* JSON.parse or URLSearchParams raise.
RawFault(name) == [t |-> "error", cls |-> name, body |-> Undefined, headers |-> Undefined]

-----------------------------------------------------------------------------
(* Response classes *)

Default(x) == IF x = Undefined THEN Null ELSE x

Result(succeeded, payload, error) ==
    [t |-> "Result", succeeded |-> succeeded, payload |-> payload, error |-> error]

AppResponse(body, headers) ==
    [t |-> "AppResponse", body |-> Default(body), headers |-> Default(headers)]

AppError(body, headers) ==
    [t |-> "error", cls |-> "AppError", body |-> Default(body), headers |-> Default(headers)]

NotFoundError(body, headers) == [AppError(body, headers) EXCEPT !.cls = "NotFoundError"]

BadRequestError(body, headers) == [AppError(body, headers) EXCEPT !.cls = "BadRequestError"]

UnauthorizedError(body, headers) == [AppError(body, headers) EXCEPT !.cls = "UnauthorizedError"]

\* error instanceof AppError
InstanceOfAppError(e) ==
    e.t = "error" /\ e.cls \in {"AppError", "NotFoundError", "BadRequestError", "UnauthorizedError"}

\* error instanceof UnauthorizedError
InstanceOfUnauthorizedError(e) == e.t = "error" /\ e.cls = "UnauthorizedError"

-----------------------------------------------------------------------------
(* Body texts: the strings over Alphabet of at most MaxLen characters.     *)
(* JSON.parse is modelled on this alphabet: a text is well formed when it  *)
(* is, between optional white space, the object {} (white space allowed    *)
(* inside) or a run of the digit 1.                                        *)

Alphabet == {"{", "}", "1", " ", "x"}

Texts == UNION {[1..n -> Alphabet] : n \in 0..MaxLen}

RECURSIVE SkipWhitespace(_, _)
SkipWhitespace(s, i) ==
    IF i <= Len(s) /\ s[i] = " " THEN SkipWhitespace(s, i + 1) ELSE i

RECURSIVE DigitsEnd(_, _)
DigitsEnd(s, i) ==
    IF i <= Len(s) /\ s[i] = "1" THEN DigitsEnd(s, i + 1) ELSE i

RECURSIVE DigitsValue(_, _, _)
DigitsValue(s, i, j) ==
    IF j <= i THEN 0 ELSE 10 * DigitsValue(s, i, j - 1) + 1

SyntaxError == RawFault("SyntaxError")

JSONparse(s) ==
    LET i == SkipWhitespace(s, 1) IN
    IF i > Len(s) THEN Throw(SyntaxError)
    ELSE IF s[i] = "{" THEN
        LET j == SkipWhitespace(s, i + 1) IN
        IF j <= Len(s) /\ s[j] = "}" /\ SkipWhitespace(s, j + 1) > Len(s)
        THEN Normal(EmptyObject)
        ELSE Throw(SyntaxError)
    ELSE IF s[i] = "1" THEN
        LET j == DigitsEnd(s, i) IN
        IF SkipWhitespace(s, j) > Len(s)
        THEN Normal(Num(DigitsValue(s, i, j)))
        ELSE Throw(SyntaxError)
    ELSE Throw(SyntaxError)

\* if (bodyText): the empty string is falsy
Truthy(bodyText) == Len(bodyText) > 0

\* parseBody without its try / catch
parseBody_noCatch(bodyText) == JSONparse(bodyText)

parseBody(bodyText) ==
    LET parsed == JSONparse(bodyText) IN
    IF ~parsed.threw THEN Normal(parsed.value)
    ELSE IF Truthy(bodyText) THEN Normal(BodyTextObject(bodyText))
    ELSE Normal(EmptyObject)

\* Payloads handed to create / replace / remove
Payloads == {Undefined, EmptyObject, [t |-> "FormData"], [t |-> "Blob"], [t |-> "circular"]}

TypeError == RawFault("TypeError")

JSONstringify(body) ==
    CASE body = Undefined -> Normal(Undefined)
      [] body = EmptyObject -> Normal(Str("{}"))
      [] OTHER -> Throw(TypeError)

stringifyBody(body) ==
    IF body.t = "FormData" \/ body.t = "Blob" THEN Normal(body)
    ELSE JSONstringify(body)

-----------------------------------------------------------------------------
(* Header Normalizer *)

\* The header collections a response may carry, as the pairs forEach visits.
HeaderCollections ==
    { <<>>,
      << <<"content-type", "application/json">>, <<"x-trace", "a">> >> }

RECURSIVE readHeadersFrom(_, _, _)
readHeadersFrom(headers, i, headersObject) ==
    IF i > Len(headers) THEN headersObject
    ELSE readHeadersFrom(headers, i + 1,
            [k \in DOMAIN headersObject \cup {headers[i][1]} |->
                IF k = headers[i][1] THEN headers[i][2] ELSE headersObject[k]])

readHeaders(headers) ==
    [t |-> "headers", m |-> readHeadersFrom(headers, 1, [k \in {} |-> ""])]

-----------------------------------------------------------------------------
(* Query strings.  A query is the sequence of its <<name, value>> entries; *)
(* the query string is kept as the sequence of <<name, text>> pairs that   *)
(* URLSearchParams holds.                                                  *)

Symbol == [t |-> "symbol"]
Array(elems) == [t |-> "array", elems |-> elems]

Queries ==
    { Undefined,
      [t |-> "object", entries |-> << <<"tags", Array(<<Str("a"), Str("b")>>)>>, <<"name", Str("")>> >>],
      [t |-> "object", entries |-> << <<"id", Symbol>> >>] }

\* String(value), as URLSearchParams converts a value
StringOf(v) ==
    CASE v.t = "string" -> Normal(v.s)
      [] v.t = "null" -> Normal("null")
      [] v.t = "undefined" -> Normal("undefined")
      [] OTHER -> Throw(TypeError)

IsEmptyParam(v) == v = Undefined \/ v = Null \/ v = Str("")

RECURSIVE Flatten(_, _)
Flatten(arrays, i) ==
    IF i > Len(arrays) THEN <<>>
    ELSE [j \in 1..Len(arrays[i][2].elems) |-> <<arrays[i][1], arrays[i][2].elems[j]>>]
         \o Flatten(arrays, i + 1)

buildQueryParams(query, deleteEmptyParams) ==
    LET kept == SelectSeq(query.entries,
                    LAMBDA p : ~(deleteEmptyParams /\ IsEmptyParam(p[2])))
        params == SelectSeq(kept, LAMBDA p : p[2].t # "array")
        paramsAsArray == SelectSeq(kept, LAMBDA p : p[2].t = "array")
        all == params \o Flatten(paramsAsArray, 1)
    IN  IF \E i \in 1..Len(all) : StringOf(all[i][2]).threw
        THEN Throw(TypeError)
        ELSE Normal([i \in 1..Len(all) |-> <<all[i][1], StringOf(all[i][2]).value>>])

-----------------------------------------------------------------------------
(* The promise chain *)

Fulfilled(v) == [state |-> "fulfilled", value |-> v]
Rejected(e) == [state |-> "rejected", value |-> e]
NoPromise == [state |-> "none", value |-> None]

\* The argument of fetch, or the exception raised before fetch is called.
query(q, headers) ==
    LET search == IF q # Undefined THEN buildQueryParams(q, TRUE) ELSE Normal(<<>>) IN
    IF search.threw THEN Throw(search.value)
    ELSE Normal([method |-> Methods.Get, credentials |-> SameOrigin,
                 search |-> search.value,
                 headers |-> IF headers # Undefined THEN headers ELSE Headers,
                 body |-> Undefined])

command(method, body) ==
    LET wire == stringifyBody(body) IN
    IF wire.threw THEN Throw(wire.value)
    ELSE Normal([method |-> method, credentials |-> SameOrigin, search |-> <<>>,
                 headers |-> Headers, body |-> wire.value])

\* isError with the upper limit of the success range left out of it
isError_exclusiveUpper(resp) == resp.status < StatusOk \/ resp.status >= StatusUnassigned

isError(resp) == resp.status < StatusOk \/ resp.status > StatusUnassigned

\* The callback handleResponse passes to response.text().then
handleResponseBody(bodyText, headers) ==
    LET body == parseBody(bodyText) IN
    IF body.threw THEN Rejected(body.value)
    ELSE Fulfilled(AppResponse(body.value, headers))

\* The callback handleExpectedError passes to error.text().then
handleExpectedErrorBody(status, bodyText, headers) ==
    LET body == parseBody(bodyText) IN
    IF body.threw THEN Rejected(body.value)
    ELSE CASE status = StatusBadRequest -> Rejected(BadRequestError(body.value, headers))
           [] status = StatusUnauthorized -> Rejected(UnauthorizedError(body.value, headers))
           [] status = StatusNotFound -> Rejected(NotFoundError(body.value, headers))
           [] OTHER -> Rejected(AppError(body.value, headers))

\* handleUnexpectedError wrapping whatever it is given
handleUnexpectedErrorOf_alwaysWrap(error) == Rejected(AppError(error, Undefined))

\* handleUnexpectedError dropping the fault it wraps
handleUnexpectedErrorOf_dropFault(error) ==
    IF ~InstanceOfAppError(error)
    THEN Rejected(AppError(Undefined, Undefined))
    ELSE Rejected(error)

handleUnexpectedErrorOf(error) ==
    IF ~InstanceOfAppError(error)
    THEN Rejected(AppError(error, Undefined))
    ELSE Rejected(error)

-----------------------------------------------------------------------------
(* interceptError *)

TechnicalError == Str("Technical error")

\* interceptError navigating on every AppError (instanceof AppError)
interceptError_navigateOnAny(error, debug) ==
    LET redacted == IF ~debug /\ error.cls = "AppError"
                    THEN [error EXCEPT !.body = TechnicalError]
                    ELSE error
    IN  [navigations |-> IF InstanceOfAppError(error) THEN 1 ELSE 0,
         error |-> redacted,
         logs |-> <<redacted>>,
         result |-> Result(FALSE, Null, redacted)]

\* interceptError redacting every AppError, subclasses included (instanceof)
interceptError_redactSubclasses(error, debug) ==
    LET redacted == IF ~debug /\ InstanceOfAppError(error)
                    THEN [error EXCEPT !.body = TechnicalError]
                    ELSE error
    IN  [navigations |-> IF InstanceOfUnauthorizedError(error) THEN 1 ELSE 0,
         error |-> redacted,
         logs |-> <<redacted>>,
         result |-> Result(FALSE, Null, redacted)]

\* interceptError handing the error's body back as the payload
interceptError_payloadBody(error, debug) ==
    LET redacted == IF ~debug /\ error.cls = "AppError"
                    THEN [error EXCEPT !.body = TechnicalError]
                    ELSE error
    IN  [navigations |-> IF InstanceOfUnauthorizedError(error) THEN 1 ELSE 0,
         error |-> redacted,
         logs |-> <<redacted>>,
         result |-> Result(FALSE, redacted.body, redacted)]

\* What one call does: the number of navigations to '/', the error object
\* as the call leaves it, the console.error calls, the Result returned.
interceptError(error, debug) ==
    LET redacted == IF ~debug /\ error.cls = "AppError"
                    THEN [error EXCEPT !.body = TechnicalError]
                    ELSE error
    IN  [navigations |-> IF InstanceOfUnauthorizedError(error) THEN 1 ELSE 0,
         error |-> redacted,
         logs |-> <<redacted>>,
         result |-> Result(FALSE, Null, redacted)]

\* getAsync after the await: [caught, settle]
getAsyncOutcome(ch, debug) ==
    IF ch.state = "fulfilled"
    THEN [caught |-> FALSE, settle |-> Fulfilled(ch.value.body)]
    ELSE [caught |-> TRUE, settle |-> Fulfilled(Undefined)]

\* postAsync, putAsync, deleteAsync without their catch block
commandOutcome_noCatch(ch, debug) ==
    IF ch.state = "fulfilled"
    THEN [caught |-> FALSE, settle |-> Fulfilled(Result(TRUE, ch.value.body, Undefined))]
    ELSE [caught |-> FALSE, settle |-> Rejected(ch.value)]

\* postAsync, putAsync, deleteAsync after the await: [caught, settle]
commandOutcome(ch, debug) ==
    IF ch.state = "fulfilled"
    THEN [caught |-> FALSE, settle |-> Fulfilled(Result(TRUE, ch.value.body, Undefined))]
    ELSE [caught |-> TRUE, settle |-> Fulfilled(interceptError(ch.value, debug).result)]

-----------------------------------------------------------------------------
(* The state machine *)

Statuses == {199, 200, 201, 299, 300, 400, 401, 404, 500}

\* What fetch and response.text() reject with
TransportFaults == {RawFault("TypeError"), RawFault("AbortError")}

CustomHeaders == [t |-> "headers", m |-> [k \in {"Accept"} |-> "text/plain"]]

Init ==
    /\ DEBUG \in BOOLEAN
    /\ pc = "idle"
    /\ verb = "none"
    /\ request = None
    /\ response = None
    /\ chain = NoPromise
    /\ decoded = None
    /\ classified = NoPromise
    /\ faultIn = None
    /\ settled = NoPromise
    /\ intercepted = None
    /\ returned = None
    /\ logged = <<>>
    /\ navigations = 0
    /\ unauthorizedSeen = 0
    /\ interceptCalls = 0
    /\ logCount = 0
    /\ calls = 0

NoIntercept == UNCHANGED <<intercepted, returned, logged, navigations, unauthorizedSeen,
                           interceptCalls, logCount>>

\* The catch block of a verb operation runs interceptError(error)
Intercept(error) ==
    LET r == interceptError(error, DEBUG) IN
    /\ intercepted' = error
    /\ returned' = r.result
    /\ logged' = r.logs
    /\ navigations' = navigations + r.navigations
    /\ unauthorizedSeen' = unauthorizedSeen + (IF error.cls = "UnauthorizedError" THEN 1 ELSE 0)
    /\ interceptCalls' = interceptCalls + 1
    /\ logCount' = logCount + Len(r.logs)

\* The verb operation v runs from its await (or from an exception raised
\* before it) to its return, with ch the completion of the chain.
Finish(v, ch) ==
    LET o == IF v = Methods.Get THEN getAsyncOutcome(ch, DEBUG) ELSE commandOutcome(ch, DEBUG) IN
    /\ pc' = "settled"
    /\ settled' = o.settle
    /\ IF o.caught THEN Intercept(ch.value) ELSE NoIntercept

\* The verb operation v runs up to its await: req is the completion of
\* query(...) or command(...) up to the call of fetch.
Start(v, req) ==
    /\ calls' = calls + 1
    /\ verb' = v
    /\ UNCHANGED <<DEBUG, response, decoded, classified, faultIn>>
    /\ IF req.threw
       THEN /\ request' = None
            /\ chain' = NoPromise
            /\ Finish(v, Rejected(req.value))
       ELSE /\ request' = req.value
            /\ chain' = [state |-> "pending", value |-> None]
            /\ pc' = "fetch"
            /\ settled' = [state |-> "pending", value |-> None]
            /\ NoIntercept

getAsync ==
    /\ pc = "idle"
    /\ calls < MaxCalls
    /\ \E q \in Queries, h \in {Undefined, CustomHeaders} : Start(Methods.Get, query(q, h))

postAsync ==
    /\ pc = "idle"
    /\ calls < MaxCalls
    /\ \E body \in Payloads : Start(Methods.Post, command(Methods.Post, body))

putAsync ==
    /\ pc = "idle"
    /\ calls < MaxCalls
    /\ \E body \in Payloads : Start(Methods.Put, command(Methods.Put, body))

deleteAsync ==
    /\ pc = "idle"
    /\ calls < MaxCalls
    /\ \E body \in Payloads : Start(Methods.Delete, command(Methods.Delete, body))

\* fetch resolves: handleResponse reads the headers and asks for the text
handleResponse ==
    /\ pc = "fetch"
    /\ \E status \in Statuses, headers \in HeaderCollections :
          response' = [status |-> status, headers |-> readHeaders(headers)]
    /\ pc' = "text"
    /\ request' = None
    /\ UNCHANGED <<DEBUG, verb, chain, decoded, classified, faultIn, settled, calls>>
    /\ NoIntercept

\* fetch rejects: the chain reaches .catch(handleUnexpectedError)
fetchRejects ==
    /\ pc = "fetch"
    /\ \E fault \in TransportFaults : chain' = Rejected(fault)
    /\ pc' = "catch"
    /\ request' = None
    /\ UNCHANGED <<DEBUG, verb, response, decoded, classified, faultIn, settled, calls>>
    /\ NoIntercept

\* response.text() resolves on a success status
handleResponseText ==
    /\ pc = "text"
    /\ ~isError(response)
    /\ \E bodyText \in Texts :
          /\ decoded' = [text |-> bodyText, completion |-> parseBody(bodyText)]
          /\ chain' = handleResponseBody(bodyText, response.headers)
    /\ classified' = chain'
    /\ pc' = IF chain'.state = "fulfilled" THEN "await" ELSE "catch"
    /\ UNCHANGED <<DEBUG, verb, request, response, faultIn, settled, calls>>
    /\ NoIntercept

\* error.text() resolves on an error status
handleExpectedError ==
    /\ pc = "text"
    /\ isError(response)
    /\ \E bodyText \in Texts :
          /\ decoded' = [text |-> bodyText, completion |-> parseBody(bodyText)]
          /\ chain' = handleExpectedErrorBody(response.status, bodyText, response.headers)
    /\ classified' = chain'
    /\ pc' = IF chain'.state = "fulfilled" THEN "await" ELSE "catch"
    /\ UNCHANGED <<DEBUG, verb, request, response, faultIn, settled, calls>>
    /\ NoIntercept

\* response.text() rejects: the body could not be read
textRejects ==
    /\ pc = "text"
    /\ \E fault \in TransportFaults : chain' = Rejected(fault)
    /\ pc' = "catch"
    /\ UNCHANGED <<DEBUG, verb, request, response, decoded, classified, faultIn, settled, calls>>
    /\ NoIntercept

handleUnexpectedError ==
    /\ pc = "catch"
    /\ chain.state = "rejected"
    /\ faultIn' = chain.value
    /\ chain' = handleUnexpectedErrorOf(chain.value)
    /\ pc' = "await"
    /\ UNCHANGED <<DEBUG, verb, request, response, decoded, classified, settled, calls>>
    /\ NoIntercept

\* The verb operation resumes after its await
Resume(v) ==
    /\ Finish(v, chain)
    /\ UNCHANGED <<DEBUG, verb, request, response, chain, decoded, classified, faultIn, calls>>

getAsyncResume ==
    /\ pc = "await"
    /\ verb = Methods.Get
    /\ Resume(Methods.Get)

postAsyncResume ==
    /\ pc = "await"
    /\ verb = Methods.Post
    /\ Resume(Methods.Post)

putAsyncResume ==
    /\ pc = "await"
    /\ verb = Methods.Put
    /\ Resume(Methods.Put)

deleteAsyncResume ==
    /\ pc = "await"
    /\ verb = Methods.Delete
    /\ Resume(Methods.Delete)

\* The caller takes the settled value; the next call may start.
Return ==
    /\ pc = "settled"
    /\ pc' = "idle"
    /\ verb' = "none"
    /\ request' = None
    /\ response' = None
    /\ chain' = NoPromise
    /\ decoded' = None
    /\ classified' = NoPromise
    /\ faultIn' = None
    /\ settled' = NoPromise
    /\ intercepted' = None
    /\ returned' = None
    /\ logged' = <<>>
    /\ UNCHANGED <<DEBUG, navigations, unauthorizedSeen, interceptCalls, logCount, calls>>

Next ==
    \/ getAsync
    \/ postAsync
    \/ putAsync
    \/ deleteAsync
    \/ handleResponse
    \/ fetchRejects
    \/ handleResponseText
    \/ handleExpectedError
    \/ textRejects
    \/ handleUnexpectedError
    \/ getAsyncResume
    \/ postAsyncResume
    \/ putAsyncResume
    \/ deleteAsyncResume
    \/ Return

Spec == Init /\ [][Next]_vars

-----------------------------------------------------------------------------
(* Properties *)

Variants == {"AppError", "BadRequestError", "UnauthorizedError", "NotFoundError"}

\* The variant the status-to-variant table gives an error status
VariantOf(status) ==
    CASE status = 400 -> "BadRequestError"
      [] status = 401 -> "UnauthorizedError"
      [] status = 404 -> "NotFoundError"
      [] OTHER -> "AppError"

BodyRead == classified.state # "none"
Intercepted == pc = "settled" /\ intercepted # None
Failed == pc = "settled" /\ chain.state # "fulfilled"

\* C1: once the body of a response is read, the status alone decides the
\* outcome: 200..299 a success carrying the decoded body, 400 / 401 / 404 the
\* named variant, any other status the Generic variant; an error carries the
\* decoded body and the normalized headers.
C1_StatusDecidesOutcome ==
    BodyRead =>
        LET status == response.status
            body == decoded.completion.value
        IN  IF status >= 200 /\ status <= 299
            THEN /\ classified.state = "fulfilled"
                 /\ classified.value.body = body
                 /\ classified.value.headers = response.headers
                 /\ pc = "settled" =>
                       IF verb = "GET" THEN settled.value = body
                       ELSE settled.value.succeeded /\ settled.value.payload = body
            ELSE /\ classified.state = "rejected"
                 /\ classified.value.cls = VariantOf(status)
                 /\ classified.value.body = body
                 /\ classified.value.headers = response.headers

C1_Witness ==
    /\ BodyRead
    /\ response.status = 404
    /\ decoded.text = <<"x">>
    /\ classified.state = "rejected"
    /\ classified.value.cls = "NotFoundError"
    /\ classified.value.body = BodyTextObject(<<"x">>)

\* C2: no verb operation settles by rejection: create / replace / remove
\* resolve with a Result (succeeded = false and the error on failure), read
\* resolves with the decoded body on success and with undefined on failure.
C2_NeverRejects ==
    /\ settled.state # "rejected"
    /\ pc = "settled" =>
          /\ settled.state = "fulfilled"
          /\ verb # "GET" =>
                /\ settled.value.t = "Result"
                /\ Failed => /\ settled.value.succeeded = FALSE
                             /\ settled.value.error.t = "error"
                             /\ settled.value.error.cls = intercepted.cls
          /\ verb = "GET" =>
                IF Failed THEN settled.value = Undefined
                ELSE settled.value = decoded.completion.value

C2_Witness ==
    /\ pc = "settled"
    /\ verb = "GET"
    /\ response # None
    /\ response.status = 500
    /\ chain.state = "rejected"
    /\ settled = Fulfilled(Undefined)

WellFormed(r) ==
    /\ r.succeeded <=> r.error = Undefined
    /\ ~r.succeeded => r.payload = Null /\ r.error.t = "error"
    /\ r.succeeded => r.payload = decoded.completion.value

\* C3: every Result returned by create, replace, remove or interceptError has
\* succeeded true exactly when it has no error; a failed one has a null payload
\* and an error, a successful one the decoded body as payload and no error.
C3_ResultWellFormed ==
    /\ returned # None => WellFormed(returned) /\ ~returned.succeeded
    /\ (pc = "settled" /\ verb # "GET") => WellFormed(settled.value)

C3_Witness ==
    /\ pc = "settled"
    /\ verb = "POST"
    /\ response # None
    /\ response.status = 201
    /\ decoded.text = <<"{", "}">>
    /\ settled.value = Result(TRUE, EmptyObject, Undefined)

\* C4: the navigations to '/' are as many as the UnauthorizedError instances
\* passed to interceptError, and interceptError returns a failed Result
\* carrying the error whatever the variant.
C4_NavigationPerUnauthorized ==
    /\ navigations = unauthorizedSeen
    /\ Intercepted =>
          /\ returned.succeeded = FALSE
          /\ returned.error.cls = intercepted.cls
          /\ returned.error.headers = intercepted.headers

C4_Witness ==
    /\ Intercepted
    /\ intercepted.cls = "UnauthorizedError"
    /\ navigations = 1
    /\ interceptCalls = 2
    /\ returned.succeeded = FALSE

\* C5: interceptError replaces the body by 'Technical error' exactly when the
\* build is non-debug and the error's constructor is AppError itself; in every
\* other case the body is the one on entry; headers and variant never change.
C5_RedactionOnlyGenericNonDebug ==
    Intercepted =>
        /\ returned.error.body =
              IF ~DEBUG /\ intercepted.cls = "AppError" THEN Str("Technical error")
              ELSE intercepted.body
        /\ returned.error.headers = intercepted.headers
        /\ returned.error.cls = intercepted.cls

C5_Witness ==
    /\ Intercepted
    /\ ~DEBUG
    /\ intercepted.cls = "BadRequestError"
    /\ intercepted.body = BodyTextObject(<<"x">>)
    /\ returned.error.body = BodyTextObject(<<"x">>)

\* The transport rejected before any status was obtained
TransportRejected == pc = "settled" /\ response = None /\ faultIn # None

\* C6 as stated: a transport rejection gives a Generic error with neither
\* body nor headers, and create / replace / remove return it in a failed Result.
C6_Original_NoBodyNoHeaders ==
    TransportRejected =>
        /\ intercepted.cls = "AppError"
        /\ intercepted.body = Null
        /\ intercepted.headers = Null
        /\ verb # "GET" =>
              /\ settled.value.succeeded = FALSE
              /\ settled.value.error.cls = "AppError"
              /\ settled.value.error.body = Null
              /\ settled.value.error.headers = Null

\* C6 amended: a transport rejection gives a Generic error with no headers
\* whose body is the raw fault; create / replace / remove return it in a failed
\* Result whose error has no headers and, as body, the raw fault in a debug
\* build and 'Technical error' in a non-debug build.
C6_FaultKeptAsBody ==
    TransportRejected =>
        /\ faultIn.cls \notin Variants
        /\ intercepted.cls = "AppError"
        /\ intercepted.body = faultIn
        /\ intercepted.headers = Null
        /\ verb # "GET" =>
              /\ settled.value.succeeded = FALSE
              /\ settled.value.payload = Null
              /\ settled.value.error.cls = "AppError"
              /\ settled.value.error.headers = Null
              /\ settled.value.error.body =
                    IF DEBUG THEN faultIn ELSE Str("Technical error")

C6_Witness ==
    /\ TransportRejected
    /\ DEBUG
    /\ verb = "PUT"
    /\ faultIn = RawFault("TypeError")
    /\ settled.value.error.body = RawFault("TypeError")
    /\ settled.value.error.headers = Null

\* C7: handleUnexpectedError always rejects, and rejects with its argument
\* itself when that is already an AppError: the error interceptError receives
\* for an error-status response is the one handleExpectedError built, and no
\* fault becomes a success.
C7_NoDoubleWrap ==
    faultIn # None =>
        /\ chain.state = "rejected"
        /\ faultIn.cls \in Variants => chain.value = faultIn
        /\ classified.state = "rejected" => chain.value = classified.value
        /\ pc = "settled" =>
              /\ intercepted = chain.value
              /\ IF verb = "GET" THEN settled.value = Undefined
                 ELSE settled.value.succeeded = FALSE

C7_Witness ==
    /\ pc = "settled"
    /\ faultIn # None
    /\ faultIn.cls = "BadRequestError"
    /\ classified.state = "rejected"
    /\ intercepted = classified.value
    /\ intercepted.body = EmptyObject

\* C8: every failure of a verb operation reaches interceptError as one of the
\* four variants AppError, BadRequestError, UnauthorizedError, NotFoundError.
C8_EveryFailureTyped ==
    Intercepted => intercepted.cls \in Variants

\* C9: every interceptError call logs once, and the log shows the body the
\* error had on entry.
C9_LogShowsOriginalBody ==
    /\ logCount = interceptCalls
    /\ Intercepted => Len(logged) = 1 /\ logged[1].body = intercepted.body

\* C10: parseBody never throws: '' gives {}, malformed non-empty text gives
\* { bodyText }, well-formed text its parsed value; an error status with any
\* body text still gives an error of the variant the status selects.
C10_ParseBodyTotal ==
    decoded # None =>
        LET text == decoded.text
            got == decoded.completion
        IN  /\ ~got.threw
            /\ text = <<>> => got.value = EmptyObject
            /\ (text # <<>> /\ JSONparse(text).threw) =>
                  got.value = [t |-> "object", keys |-> {"bodyText"}, bodyText |-> text]
            /\ ~JSONparse(text).threw => got.value = JSONparse(text).value
            /\ text = <<"{", "}">> => got.value = EmptyObject
            /\ text = <<"1", "1">> => got.value = Num(11)
            /\ text = <<"{", "1">> => got.value.keys = {"bodyText"}
            /\ (response.status < 200 \/ response.status > 299) =>
                  /\ classified.state = "rejected"
                  /\ classified.value.t = "error"
                  /\ classified.value.cls = VariantOf(response.status)
                  /\ classified.value.body = got.value

C10_Witness ==
    /\ decoded # None
    /\ response.status = 500
    /\ decoded.text = <<"{">>
    /\ classified.state = "rejected"
    /\ classified.value.cls = "AppError"
    /\ classified.value.body = BodyTextObject(<<"{">>)

====
